---------------------------- MODULE Spec2Model ----------------------------
(***************************************************************************)
(* A state-machine model of src/instagram_dm_tool.py (class IGDMTool):     *)
(* the menu operations, the cursor-paginated history fetch                 *)
(* (fetch_all_messages_paginated), the keyword search and the bulk unsend. *)
(*                                                                         *)
(* The remote service behind client.private_request is the environment.    *)
(* It holds, for the selected thread, a history of N messages numbered     *)
(* 1 (newest) .. N (oldest).  A cursor token names the number of the last  *)
(* message already served.  For every request the environment answers      *)
(* either as an honest server would, or with a fault (request error,       *)
(* response without thread payload, premature empty page, page of another  *)
(* size, blank cursor fields).                                             *)
(*                                                                         *)
(* Python values that reach the code's truthiness tests, `in` tests, `or`  *)
(* chains and str() calls are modelled as records [t, src, p]:             *)
(*   t = "none"  absent key / None,                                        *)
(*   t = "str"   a string; src = "" is the empty string,                   *)
(*   t = "int"   an integer.                                               *)
(* Response fields are assumed to have the types of the transport          *)
(* contract (cursor fields and identifiers are strings, possibly empty).   *)
(*                                                                         *)
(* Sizes are scaled: PageLimit stands for the 75 of the source, the        *)
(* default amounts for its 20 and 1000, keeping their order relations.     *)
(***************************************************************************)
EXTENDS Integers, Sequences, FiniteSets, TLC

\* ----------------------------------------------------------------- sizes
\* The page size the source names 75 (limit parameter, pagination threshold).
PageLimit == 2
\* Largest history the environment holds.
MaxHistory == 5
\* Largest amount a user types at the "Number of messages" prompts.
MaxAmount == 5
\* The amount view_messages_raw_api uses for a non-numeric input (source: 20).
ViewDefaultAmount == 1
\* The amount search_messages_raw_api uses for a non-numeric input (source: 1000).
SearchDefaultAmount == 4
\* The empty/failure budget of the fetch loop.
EmptyBudget == 3
\* Search over arbitrary item lists: the longest list, the largest message number.
MaxScan == 3
MaxMid == 7

\* ---------------------------------------------------------- Python values
NoneV == [t |-> "none", src |-> "", p |-> 0]
EmptyStr == [t |-> "str", src |-> "", p |-> 0]
StrV(src, p) == [t |-> "str", src |-> src, p |-> p]
IntV(src, p) == [t |-> "int", src |-> src, p |-> p]

\* bool(v): None and the empty string are falsy.
Truthy(v) == v.t # "none" /\ v # EmptyStr

\* 'key' in dict, for a field held as NoneV when the key is absent.
Has(v) == v.t # "none"

\* str(v): an integer becomes its decimal string, a string stays itself.
PyStr(v) ==
    IF v.t = "int" THEN [v EXCEPT !.t = "str"]
    ELSE IF v.t = "none" THEN StrV("None", 0)
    ELSE v

\* a or b or c
Or3(a, b, c) == IF Truthy(a) THEN a ELSE IF Truthy(b) THEN b ELSE c

Min(a, b) == IF a <= b THEN a ELSE b

\* ------------------------------------------------------------- constants
Me == 1
Other == 2
CursorLocs == {"oldest", "next", "timestamp", "paging", "itemid"}
\* The cursor locations a service profile populates.
Profiles ==
    { {}, {"oldest"}, {"next"}, {"timestamp"}, {"paging"}, {"itemid"},
      {"oldest", "next", "itemid"}, {"next", "timestamp"},
      {"timestamp", "paging"}, {"paging", "itemid"} }
ThreadIds == {"1", "2"}
NoThread == "none"

VARIABLES
    \* ---- program state (IGDMTool fields)
    logged_in,            \* self.logged_in
    selected_thread_id,   \* self.selected_thread_id (NoThread for None)
    my_user_id,           \* self.my_user_id
    has_last_matches,     \* hasattr(self, 'last_matches')
    last_matches,         \* self.last_matches
    last_keywords,        \* self.last_keywords
    matchThread,          \* observed: the thread selected when last_matches was stored
    \* ---- control
    pc,                   \* "menu" | "loop" | "ret" | "unsend" | "done"
    caller,               \* which operation runs: "none" | "view" | "search" | "delete"
    result,               \* how the finished operation ended
    \* ---- locals of the running operation
    amount,               \* view/search: the requested amount
    keywords,             \* search: the parsed keyword list
    items,                \* view/search: the item list the caller uses
    max_messages,         \* fetch: the target count
    all_messages,         \* fetch: collected items
    cursor,               \* fetch: the cursor held
    page,                 \* fetch: page counter
    consecutive_empty_pages,
    own_messages,         \* unsend: the matches authored by the account
    idx,                  \* unsend: position in own_messages (the loop's i)
    deleted,              \* unsend: success count
    failed,               \* unsend: failure count
    \* ---- environment
    N,                    \* length of the thread's history
    locs,                 \* cursor locations the service populates
    faults,               \* whether the service may answer with faults
    anyItems,             \* whether the service holds arbitrary messages in any order
    \* ---- observation of the running operation
    nreq,                 \* thread page requests issued by the operation
    lastReq,              \* cursor parameter of the last page request (NoneV: none)
    lastResp,             \* the response to the last page request
    reqCep,               \* consecutive_empty_pages when the last request was issued
    honest,               \* the service answered every request of the operation honestly
    orderly,              \* ... honestly, or failed to answer (error, no thread payload)
    loopEntered,          \* the operation entered the multi-page loop
    streak,               \* kinds of the responses without progress since the last page
                          \* (the first EmptyBudget + 1 of them)
    received,             \* the items of all non-empty pages received, in request order
    calls,                \* unsend: the remote calls made for the last processed item
    touched,              \* unsend: mids of the items a remote call was made for, in order
    typed,                \* what was typed at the operation's prompt (keywords, confirmation)
    log,                  \* unsend: the events of the pass, in order
    inboxReq              \* inbox listing requests issued by the operation

progVars == <<logged_in, selected_thread_id, my_user_id, has_last_matches,
              last_matches, last_keywords, matchThread>>
ctlVars == <<pc, caller, result>>
opVars == <<amount, keywords, items>>
fetchVars == <<max_messages, all_messages, cursor, page, consecutive_empty_pages>>
unsendVars == <<own_messages, idx, deleted, failed>>
envVars == <<N, locs, faults, anyItems>>
reqObs == <<nreq, lastReq, lastResp, reqCep, honest, orderly, loopEntered, streak,
            received>>
callObs == <<calls, touched, typed, log, inboxReq>>
vars == <<progVars, ctlVars, opVars, fetchVars, unsendVars, envVars, reqObs, callObs>>

\* ------------------------------------------------------------ the service
\* Message m of the history, in the shape the service's profile gives it.
Text(m) ==
    CASE m % 7 = 1 -> <<"A", "b">>
      [] m % 7 = 2 -> <<"b", "a">>
      [] m % 7 = 3 -> <<"a">>
      [] m % 7 = 4 -> <<"B", "B">>
      [] m % 7 = 5 -> <<"a", "a">>
      [] OTHER -> <<>>

Item(L, m) ==
    [ mid |-> m,
      item_id |-> IF "itemid" \in L
                  THEN (IF m % 3 = 1 THEN StrV("item_id", m)
                        ELSE IF m % 3 = 2 THEN EmptyStr ELSE NoneV)
                  ELSE NoneV,
      id |-> IF "itemid" \in L /\ m % 3 = 2 THEN StrV("id", m) ELSE NoneV,
      client_context |-> IF "itemid" \in L /\ m % 3 = 0
                         THEN StrV("client_context", m) ELSE NoneV,
      has_text |-> m % 7 # 0,
      text |-> Text(m),
      user_id |-> CASE m % 4 = 1 -> IntV("uid", Me)
                    [] m % 4 = 3 -> StrV("uid", Me)
                    [] m % 4 = 2 -> IntV("uid", Other)
                    [] OTHER -> NoneV,
      timestamp |-> IF "timestamp" \in L THEN IntV("ts", m) ELSE NoneV ]

\* Messages from..to of the history, newest first.
Slice(L, from, to) == [i \in 1..(to - from + 1) |-> Item(L, from + i - 1)]

NoResp ==
    [kind |-> "none", items |-> <<>>, oldest_cursor |-> NoneV,
     next_cursor |-> NoneV, has_paging |-> FALSE, max_id |-> NoneV]

\* A page holding messages pos+1 .. pos+k; the cursor fields of `blank` are
\* sent as empty strings.
PageResp(L, pos, k, blank) ==
    [kind |-> "page",
     items |-> Slice(L, pos + 1, pos + k),
     oldest_cursor |-> IF "oldest" \in L
                       THEN (IF "oldest" \in blank THEN EmptyStr
                             ELSE StrV("oldest", pos + k))
                       ELSE NoneV,
     next_cursor |-> IF "next" \in L
                     THEN (IF "next" \in blank THEN EmptyStr
                           ELSE StrV("next", pos + k))
                     ELSE NoneV,
     has_paging |-> "paging" \in L,
     max_id |-> IF "paging" \in L
                THEN (IF "paging" \in blank THEN EmptyStr
                      ELSE StrV("max_id", pos + k))
                ELSE NoneV]

\* The position a request's cursor parameter names (no parameter: the top).
CursorPos(cur) == IF cur = NoneV THEN 0 ELSE cur.p

\* What an honest service answers: the next `limit` messages after the cursor,
\* every cursor location of its profile filled in; an empty page once the
\* history is exhausted.
HonestResponse(L, n, cur, limit) ==
    LET pos == CursorPos(cur)
        k == Min(limit, n - pos)
    IN PageResp(L, pos, IF k > 0 THEN k ELSE 0, {})

\* Every answer the service may give to a page request.
Responses(L, n, cur, limit) ==
    LET pos == CursorPos(cur)
    IN { [NoResp EXCEPT !.kind = "error"], [NoResp EXCEPT !.kind = "nothread"],
         PageResp(L, pos, 0, {}) }
       \cup { PageResp(L, pos, k, blank) :
                k \in 1..Min(n - pos, PageLimit + 1),
                blank \in SUBSET (L \cap {"oldest", "next", "paging"}) }
       \cup { HonestResponse(L, n, cur, limit) }

\* Pages of a thread that holds any messages in any order: up to MaxScan
\* items, each any of the messages 1..MaxMid.
AnyPages(L) ==
    { [NoResp EXCEPT !.kind = "page", !.items = [i \in DOMAIN f |-> Item(L, f[i])]] :
        f \in UNION { [1..k -> 1..MaxMid] : k \in 0..MaxScan } }

\* ------------------------------------------------------------- the fetch
\* The cursor parameter a request carries: `if cursor: params["cursor"] = cursor`.
CursorParam(c) == IF Truthy(c) THEN c ELSE NoneV

\* Lines 309-333: the first cursor of the response, by the elif chain.
ChainCursor_NextFirst(resp) ==
    LET its == resp.items
        last == its[Len(its)]
    IN IF Has(resp.next_cursor) THEN resp.next_cursor
       ELSE IF Has(resp.oldest_cursor) THEN resp.oldest_cursor
       ELSE IF its # <<>>
            THEN (IF Has(last.timestamp) THEN PyStr(last.timestamp) ELSE NoneV)
       ELSE NoneV

ChainCursor(resp) ==
    LET its == resp.items
        last == its[Len(its)]
    IN IF Has(resp.oldest_cursor) THEN resp.oldest_cursor
       ELSE IF Has(resp.next_cursor) THEN resp.next_cursor
       ELSE IF its # <<>>
            THEN (IF Has(last.timestamp) THEN PyStr(last.timestamp) ELSE NoneV)
       ELSE IF resp.has_paging
            THEN (IF Has(resp.max_id) THEN resp.max_id ELSE NoneV)
       ELSE NoneV

\* Lines 335-343: the last item's identifier when the chain gave nothing.
ResolveCursor(resp) ==
    LET its == resp.items
        last == its[Len(its)]
        c == ChainCursor(resp)
    IN IF ~Truthy(c) /\ its # <<>>
       THEN Or3(last.item_id, last.id, last.client_context)
       ELSE c

\* Lines 297-303: append the page's items, capped at max_messages.
AppendCapped_NoCap(all, its, max) == all \o its

AppendCapped(all, its, max) ==
    all \o SubSeq(its, 1, Min(Len(its), IF max > Len(all) THEN max - Len(all) ELSE 0))

\* The kind of a response as the loop tells them apart.
RespKind(resp) ==
    IF resp.kind = "page" /\ resp.items = <<>> THEN "empty" ELSE resp.kind

NoProgress == {"error", "nothread", "empty"}

\* ------------------------------------------------------------ text inputs
\* Strings typed at prompts and message texts are sequences of characters.
RECURSIVE LStrip(_)
LStrip(s) == IF s # <<>> /\ Head(s) = " " THEN LStrip(Tail(s)) ELSE s

RECURSIVE RStrip(_)
RStrip(s) ==
    IF s # <<>> /\ s[Len(s)] = " " THEN RStrip(SubSeq(s, 1, Len(s) - 1)) ELSE s

\* str.strip()
Strip(s) == RStrip(LStrip(s))

LowerChar(c) ==
    CASE c = "A" -> "a" [] c = "B" -> "b" [] c = "Y" -> "y"
      [] c = "E" -> "e" [] c = "S" -> "s" [] OTHER -> c

\* str.lower()
Lower(s) == [i \in 1..Len(s) |-> LowerChar(s[i])]

\* keyword in text
Contains(text, kw) ==
    \E i \in 1..(Len(text) - Len(kw) + 1) : SubSeq(text, i, i + Len(kw) - 1) = kw

\* -------------------------------------------------------------- the state
NoLocals ==
    /\ amount = 0 /\ keywords = <<>> /\ items = <<>>
    /\ max_messages = 0 /\ all_messages = <<>> /\ cursor = NoneV /\ page = 1
    /\ consecutive_empty_pages = 0
    /\ own_messages = <<>> /\ idx = 1 /\ deleted = 0 /\ failed = 0
    /\ nreq = 0 /\ lastReq = NoneV /\ lastResp = NoResp
    /\ reqCep = 0 /\ honest = TRUE /\ orderly = TRUE /\ loopEntered = FALSE
    /\ streak = <<>> /\ received = <<>>
    /\ calls = <<>> /\ touched = <<>> /\ typed = <<>> /\ log = <<>>
    /\ inboxReq = 0

ResetLocals ==
    /\ amount' = 0 /\ keywords' = <<>> /\ items' = <<>>
    /\ max_messages' = 0 /\ all_messages' = <<>> /\ cursor' = NoneV /\ page' = 1
    /\ consecutive_empty_pages' = 0
    /\ own_messages' = <<>> /\ idx' = 1 /\ deleted' = 0 /\ failed' = 0
    /\ nreq' = 0 /\ lastReq' = NoneV /\ lastResp' = NoResp
    /\ reqCep' = 0 /\ honest' = TRUE /\ orderly' = TRUE /\ loopEntered' = FALSE
    /\ streak' = <<>> /\ received' = <<>>
    /\ calls' = <<>> /\ touched' = <<>> /\ typed' = <<>> /\ log' = <<>>
    /\ inboxReq' = 0

\* IGDMTool.__init__, against a service with any history and cursor profile.
Init ==
    /\ logged_in = FALSE
    /\ selected_thread_id = NoThread
    /\ my_user_id = NoneV
    /\ has_last_matches = FALSE
    /\ last_matches = <<>>
    /\ last_keywords = <<>>
    /\ matchThread = NoThread
    /\ pc = "menu" /\ caller = "none" /\ result = ""
    /\ NoLocals
    /\ N = MaxHistory
    /\ locs \in {CursorLocs, {"oldest"}}
    /\ faults = FALSE
    /\ anyItems = FALSE

\* The operation's frame is left: back at the menu prompt.
Return ==
    /\ pc = "done"
    /\ pc' = "menu" /\ caller' = "none" /\ result' = ""
    /\ ResetLocals
    /\ UNCHANGED <<progVars, envVars>>

\* An operation that ends at once with outcome r and touches nothing.
EndWith(op, r) ==
    /\ pc' = "done" /\ caller' = op /\ result' = r
    /\ UNCHANGED <<opVars, fetchVars, unsendVars, envVars, reqObs, callObs>>

\* login(): a restored session or a fresh login succeeds, or the login fails.
Login ==
    /\ pc = "menu"
    /\ \E ok \in BOOLEAN :
         IF ok
         THEN /\ logged_in' = TRUE
              /\ my_user_id' = PyStr(IntV("uid", Me))
              /\ EndWith("login", "ok")
         ELSE /\ UNCHANGED <<logged_in, my_user_id>>
              /\ EndWith("login", "failed")
    /\ UNCHANGED <<selected_thread_id, has_last_matches, last_matches, last_keywords, matchThread>>

\* An operation that ends with outcome r after one inbox listing request
\* (private_request on direct_v2/inbox/).
EndAfterInbox(op, r) ==
    /\ pc' = "done" /\ caller' = op /\ result' = r
    /\ inboxReq' = inboxReq + 1
    /\ UNCHANGED <<opVars, fetchVars, unsendVars, envVars, reqObs, calls, touched,
                   typed, log>>

\* The thread_id a thread of the inbox answer carries; .get('thread_id') of a
\* thread without one is None.
InboxThreadIds == ThreadIds \cup {NoThread}

\* list_threads_raw_api(): the inbox is listed and one of its threads may be
\* picked by number.
ListThreads_NoLoginCheck ==
    /\ pc = "menu"
    /\ UNCHANGED <<logged_in, my_user_id, has_last_matches, last_matches, last_keywords, matchThread>>
    /\ \E answer \in {"error", "no_inbox", "no_threads", "listed"} :
         IF answer # "listed"
         THEN UNCHANGED selected_thread_id /\ EndAfterInbox("list", answer)
         ELSE \E choice \in {"cancel", "invalid", "valid"} :
                IF choice # "valid"
                THEN UNCHANGED selected_thread_id /\ EndAfterInbox("list", choice)
                ELSE \E t \in InboxThreadIds :
                       selected_thread_id' = t /\ EndAfterInbox("list", "ok")

ListThreads ==
    /\ pc = "menu"
    /\ UNCHANGED <<logged_in, my_user_id, has_last_matches, last_matches, last_keywords, matchThread>>
    /\ IF ~logged_in
       THEN UNCHANGED selected_thread_id /\ EndWith("list", "not_logged_in")
       ELSE \E answer \in {"error", "no_inbox", "no_threads", "listed"} :
              IF answer # "listed"
              THEN UNCHANGED selected_thread_id /\ EndAfterInbox("list", answer)
              ELSE \E choice \in {"cancel", "invalid", "valid"} :
                     IF choice # "valid"
                     THEN UNCHANGED selected_thread_id /\ EndAfterInbox("list", choice)
                     ELSE \E t \in InboxThreadIds :
                            selected_thread_id' = t /\ EndAfterInbox("list", "ok")

\* select_thread(): a numeric input is taken as the thread id; a username is
\* looked up and the inbox window scanned for a thread with that user.
SelectThread_UnselectsOnNotFound ==
    /\ pc = "menu"
    /\ UNCHANGED <<logged_in, my_user_id, has_last_matches, last_matches, last_keywords,
                   matchThread>>
    /\ IF ~logged_in
       THEN UNCHANGED selected_thread_id /\ EndWith("select", "not_logged_in")
       ELSE \E inp \in {"empty", "digits", "username"} :
              CASE inp = "empty" ->
                     UNCHANGED selected_thread_id /\ EndWith("select", "empty_input")
                [] inp = "digits" ->
                     \E t \in ThreadIds :
                        selected_thread_id' = t /\ EndWith("select", "ok")
                [] OTHER ->
                     \E found \in InboxThreadIds
                                    \cup {"lookup_error", "inbox_error", "not_found"} :
                        CASE found = "lookup_error" ->
                               UNCHANGED selected_thread_id /\ EndWith("select", found)
                          [] found = "inbox_error" ->
                               UNCHANGED selected_thread_id /\ EndAfterInbox("select", found)
                          [] found = "not_found" ->
                               selected_thread_id' = NoThread /\ EndAfterInbox("select", found)
                          [] OTHER ->
                               selected_thread_id' = found /\ EndAfterInbox("select", "ok")

SelectThread ==
    /\ pc = "menu"
    /\ UNCHANGED <<logged_in, my_user_id, has_last_matches, last_matches, last_keywords, matchThread>>
    /\ IF ~logged_in
       THEN UNCHANGED selected_thread_id /\ EndWith("select", "not_logged_in")
       ELSE \E inp \in {"empty", "digits", "username"} :
              CASE inp = "empty" ->
                     UNCHANGED selected_thread_id /\ EndWith("select", "empty_input")
                [] inp = "digits" ->
                     \E t \in ThreadIds :
                        selected_thread_id' = t /\ EndWith("select", "ok")
                [] OTHER ->
                     \E found \in InboxThreadIds
                                    \cup {"lookup_error", "inbox_error", "not_found"} :
                        CASE found = "lookup_error" ->
                               UNCHANGED selected_thread_id /\ EndWith("select", found)
                          [] found \in {"inbox_error", "not_found"} ->
                               UNCHANGED selected_thread_id /\ EndAfterInbox("select", found)
                          [] OTHER ->
                               selected_thread_id' = found /\ EndAfterInbox("select", "ok")

\* -------------------------------------------------- history: both callers
\* The answers the service may give here.
Answers(cur, limit) ==
    IF anyItems THEN AnyPages(locs)
    ELSE IF faults THEN Responses(locs, N, cur, limit)
    ELSE {HonestResponse(locs, N, cur, limit)}

\* `int(amount) if amount.isdigit() else default`
Amounts(default) == (0..MaxAmount) \cup {default}

\* Lines 386 and 478: more than one page's worth is asked for.
UsePagination_AtLimit(amt) == amt >= PageLimit

UsePagination(amt) == amt > PageLimit

\* fetch_all_messages_paginated is entered (lines 243-250).
EnterFetch(op, amt) ==
    /\ pc' = "loop" /\ caller' = op /\ result' = ""
    /\ max_messages' = amt /\ all_messages' = <<>> /\ cursor' = NoneV
    /\ page' = 1 /\ consecutive_empty_pages' = 0
    /\ loopEntered' = TRUE
    /\ UNCHANGED <<nreq, lastReq, lastResp, reqCep, honest, orderly, streak, received>>

\* The single direct page request of the below-threshold path, and what the
\* caller gets from it: "error" (the request raised), "nothread", or the items.
DirectRequest(op, amt, resp) ==
    /\ nreq' = nreq + 1
    /\ lastReq' = NoneV /\ lastResp' = resp
    /\ honest' = (honest /\ resp = HonestResponse(locs, N, NoneV, amt))
    /\ orderly' = (orderly /\ (resp = HonestResponse(locs, N, NoneV, amt)
                                \/ resp.kind \in {"error", "nothread"}))
    /\ UNCHANGED <<reqCep, loopEntered, streak, received>>
    /\ caller' = op /\ pc' = "done"
    /\ UNCHANGED fetchVars

\* Line 252: the while condition.
LoopContinues(all, max, cep) == Len(all) < max /\ cep < EmptyBudget

\* Lines 272-292 and 359-365: a response without thread payload, an empty
\* page or a request error. The counter goes up, the loop stops when the
\* budget is spent, and the cursor is left alone.
HandleNoProgress_DropCursor ==
    /\ consecutive_empty_pages' = consecutive_empty_pages + 1
    /\ IF consecutive_empty_pages + 1 >= EmptyBudget
       THEN pc' = "ret" /\ page' = page
       ELSE pc' = "loop" /\ page' = page + 1
    /\ cursor' = NoneV
    /\ UNCHANGED all_messages

HandleNoProgress_LosesItems ==
    /\ consecutive_empty_pages' = consecutive_empty_pages + 1
    /\ IF consecutive_empty_pages + 1 >= EmptyBudget
       THEN pc' = "ret" /\ page' = page /\ all_messages' = <<>>
       ELSE pc' = "loop" /\ page' = page + 1 /\ UNCHANGED all_messages
    /\ UNCHANGED cursor

HandleNoProgress_NoCount ==
    /\ consecutive_empty_pages' = consecutive_empty_pages
    /\ pc' = "loop" /\ page' = page + 1
    /\ UNCHANGED <<all_messages, cursor>>

HandleNoProgress ==
    /\ consecutive_empty_pages' = consecutive_empty_pages + 1
    /\ IF consecutive_empty_pages + 1 >= EmptyBudget
       THEN pc' = "ret" /\ page' = page
       ELSE pc' = "loop" /\ page' = page + 1
    /\ UNCHANGED <<all_messages, cursor>>

\* Lines 294-357: a page with items. The counter is reset, the items are
\* appended up to the target, the next cursor is resolved; without a cursor
\* the loop goes on only from page 1.
HandlePage_AlwaysRetry(resp) ==
    /\ consecutive_empty_pages' = 0
    /\ all_messages' = AppendCapped(all_messages, resp.items, max_messages)
    /\ cursor' = ResolveCursor(resp)
    /\ pc' = "loop" /\ page' = page + 1

HandlePage_NoReset(resp) ==
    /\ UNCHANGED consecutive_empty_pages
    /\ all_messages' = AppendCapped(all_messages, resp.items, max_messages)
    /\ cursor' = ResolveCursor(resp)
    /\ IF ~Truthy(ResolveCursor(resp))
       THEN IF page = 1
            THEN pc' = "loop" /\ page' = page + 1
            ELSE pc' = "ret" /\ page' = page
       ELSE pc' = "loop" /\ page' = page + 1

HandlePage(resp) ==
    /\ consecutive_empty_pages' = 0
    /\ all_messages' = AppendCapped(all_messages, resp.items, max_messages)
    /\ cursor' = ResolveCursor(resp)
    /\ IF ~Truthy(ResolveCursor(resp))
       THEN IF page = 1
            THEN pc' = "loop" /\ page' = page + 1
            ELSE pc' = "ret" /\ page' = page
       ELSE pc' = "loop" /\ page' = page + 1

\* One iteration of the while loop of fetch_all_messages_paginated
\* (lines 252-365): the page request, and the handling of its response.
FetchIter ==
    /\ pc = "loop"
    /\ LoopContinues(all_messages, max_messages, consecutive_empty_pages)
    /\ \E resp \in Answers(CursorParam(cursor), PageLimit) :
         /\ nreq' = nreq + 1
         /\ lastReq' = CursorParam(cursor) /\ lastResp' = resp
         /\ reqCep' = consecutive_empty_pages
         /\ honest' = (honest /\ resp = HonestResponse(locs, N, CursorParam(cursor), PageLimit))
         /\ orderly' = (orderly /\ (resp = HonestResponse(locs, N, CursorParam(cursor), PageLimit)
                                     \/ resp.kind \in {"error", "nothread"}))
         /\ IF RespKind(resp) \in NoProgress
            THEN /\ HandleNoProgress
                 /\ streak' = IF Len(streak) <= EmptyBudget
                              THEN Append(streak, RespKind(resp)) ELSE streak
                 /\ UNCHANGED received
            ELSE /\ HandlePage(resp)
                 /\ streak' = <<>>
                 /\ received' = received \o resp.items
    /\ UNCHANGED <<progVars, caller, result, opVars, max_messages, unsendVars,
                   envVars, loopEntered, callObs>>

\* The while condition fails: the function returns all_messages (lines 367-368).
FetchExit ==
    /\ pc = "loop"
    /\ ~LoopContinues(all_messages, max_messages, consecutive_empty_pages)
    /\ pc' = "ret"
    /\ UNCHANGED <<progVars, caller, result, opVars, fetchVars, unsendVars,
                   envVars, reqObs, callObs>>

\* ------------------------------------------------------------------ view
\* view_messages_raw_api up to the history it obtains (lines 370-401).
ViewMessages ==
    /\ pc = "menu"
    /\ UNCHANGED <<progVars, keywords, unsendVars, envVars, callObs>>
    /\ IF ~logged_in
       THEN EndWith("view", "not_logged_in")
       ELSE IF selected_thread_id = NoThread
       THEN EndWith("view", "no_thread")
       ELSE \E amt \in Amounts(ViewDefaultAmount) :
              /\ amount' = amt
              /\ IF UsePagination(amt)
                 THEN EnterFetch("view", amt) /\ UNCHANGED items
                 ELSE \E resp \in Answers(NoneV, amt) :
                        /\ DirectRequest("view", amt, resp)
                        /\ CASE resp.kind = "error" ->
                                  result' = "failed" /\ UNCHANGED items
                             [] resp.kind = "nothread" ->
                                  result' = "no_thread_data" /\ UNCHANGED items
                             [] OTHER ->
                                  /\ items' = resp.items
                                  /\ result' = IF resp.items = <<>>
                                               THEN "no_messages" ELSE "shown"

\* view_messages_raw_api after the paginated fetch returned (lines 388, 403-447).
ViewAfterFetch ==
    /\ pc = "ret" /\ caller = "view"
    /\ items' = all_messages
    /\ result' = IF all_messages = <<>> THEN "no_messages" ELSE "shown"
    /\ pc' = "done"
    /\ UNCHANGED <<progVars, caller, amount, keywords, fetchVars, unsendVars,
                   envVars, reqObs, callObs>>

\* ---------------------------------------------------------------- search
\* Line 469: [k.strip().lower() for k in keywords_input.split(",") if k.strip()],
\* on the pieces between the commas of the input.
RECURSIVE ParseKeywords(_)
ParseKeywords(pieces) ==
    IF pieces = <<>> THEN <<>>
    ELSE (IF Strip(Head(pieces)) # <<>> THEN <<Lower(Strip(Head(pieces)))>> ELSE <<>>)
         \o ParseKeywords(Tail(pieces))

\* Line 465: the stripped input is empty (one piece, blank).
BlankInput(pieces) == Len(pieces) = 1 /\ Strip(pieces[1]) = <<>>

\* Lines 505-510: the item has a text and it holds one of the keywords.
ItemMatches_CaseSensitive(item, kws) ==
    /\ item.has_text
    /\ item.text # <<>>
    /\ \E i \in 1..Len(kws) : Contains(item.text, kws[i])

ItemMatches(item, kws) ==
    /\ item.has_text
    /\ item.text # <<>>
    /\ \E i \in 1..Len(kws) : Contains(Lower(item.text), kws[i])

\* Lines 497-511: the scan.
RECURSIVE Scan(_, _)
Scan(its, kws) ==
    IF its = <<>> THEN <<>>
    ELSE (IF ItemMatches(Head(its), kws) THEN <<Head(its)>> ELSE <<>>)
         \o Scan(Tail(its), kws)

\* What a user may type at the keyword prompt, split at the commas.
KeywordInputs ==
    { << <<" ">> >>,
      << <<" ", "A">>, <<"b", " ">> >>,
      << <<"a">> >>,
      << <<>>, <<" ">> >>,
      << <<"B", "a">>, <<>> >> }

\* Lines 493-541: the caller has its items; scan them and retain the matches.
SearchItems_KeepIfNoMatch(its, kws) ==
    IF its = <<>>
    THEN /\ result' = "no_messages"
         /\ UNCHANGED <<has_last_matches, last_matches, last_keywords, matchThread>>
    ELSE /\ result' = "searched"
         /\ IF Scan(its, kws) = <<>>
            THEN UNCHANGED <<has_last_matches, last_matches, last_keywords, matchThread>>
            ELSE /\ has_last_matches' = TRUE
                 /\ last_matches' = Scan(its, kws)
                 /\ last_keywords' = kws
                 /\ matchThread' = selected_thread_id
         /\ matchThread' = selected_thread_id

SearchItems(its, kws) ==
    IF its = <<>>
    THEN /\ result' = "no_messages"
         /\ UNCHANGED <<has_last_matches, last_matches, last_keywords, matchThread>>
    ELSE /\ result' = "searched"
         /\ has_last_matches' = TRUE
         /\ last_matches' = Scan(its, kws)
         /\ last_keywords' = kws
         /\ matchThread' = selected_thread_id

\* search_messages_raw_api up to the history it obtains (lines 452-491), and
\* on the below-threshold path to its end.
SearchWith(inputs) ==
    /\ pc = "menu"
    /\ UNCHANGED <<logged_in, selected_thread_id, my_user_id, unsendVars, envVars,
                   calls, touched, log, inboxReq>>
    /\ IF ~logged_in
       THEN /\ EndWith("search", "not_logged_in")
            /\ UNCHANGED <<has_last_matches, last_matches, last_keywords, matchThread>>
       ELSE IF selected_thread_id = NoThread
       THEN /\ EndWith("search", "no_thread")
            /\ UNCHANGED <<has_last_matches, last_matches, last_keywords, matchThread>>
       ELSE \E inp \in inputs :
              IF BlankInput(inp)
              THEN /\ EndWith("search", "no_keywords")
                   /\ UNCHANGED <<has_last_matches, last_matches, last_keywords, matchThread>>
              ELSE \E amt \in Amounts(SearchDefaultAmount) :
                     /\ amount' = amt
                     /\ keywords' = ParseKeywords(inp)
                     /\ typed' = inp
                     /\ IF UsePagination(amt)
                        THEN /\ EnterFetch("search", amt)
                             /\ UNCHANGED <<items, has_last_matches, last_matches,
                                            last_keywords, matchThread>>
                        ELSE \E resp \in Answers(NoneV, amt) :
                               /\ DirectRequest("search", amt, resp)
                               /\ CASE resp.kind = "error" ->
                                         /\ result' = "failed"
                                         /\ UNCHANGED <<items, has_last_matches,
                                                        last_matches, last_keywords, matchThread>>
                                    [] resp.kind = "nothread" ->
                                         /\ result' = "no_thread_data"
                                         /\ UNCHANGED <<items, has_last_matches,
                                                        last_matches, last_keywords, matchThread>>
                                    [] OTHER ->
                                         /\ items' = resp.items
                                         /\ SearchItems(resp.items, ParseKeywords(inp))

SearchMessages == SearchWith(KeywordInputs)

\* search_messages_raw_api after the paginated fetch returned (lines 479, 493-541).
SearchAfterFetch ==
    /\ pc = "ret" /\ caller = "search"
    /\ items' = all_messages
    /\ SearchItems(all_messages, keywords)
    /\ pc' = "done"
    /\ UNCHANGED <<logged_in, selected_thread_id, my_user_id, caller, amount,
                   keywords, fetchVars, unsendVars, envVars, reqObs, callObs>>

\* ---------------------------------------------------------------- unsend
\* msg.get(key, default)
Get(v, default) == IF Has(v) THEN v ELSE default

\* Lines 573-574: str(msg.get('user_id', '')) == self.my_user_id
IsOwn_NoStr(msg, uid) == Get(msg.user_id, EmptyStr) = uid

IsOwn(msg, uid) == PyStr(Get(msg.user_id, EmptyStr)) = uid

\* Lines 569-577: the matches authored by the account, in order.
RECURSIVE OwnOf(_, _)
OwnOf(matches, uid) ==
    IF matches = <<>> THEN <<>>
    ELSE (IF IsOwn(Head(matches), uid) THEN <<Head(matches)>> ELSE <<>>)
         \o OwnOf(Tail(matches), uid)

\* Lines 617-619: the identifier sent for a message.
MsgId_FirstPresent(msg) ==
    IF Has(msg.item_id) THEN msg.item_id
    ELSE IF Has(msg.id) THEN msg.id
    ELSE msg.client_context

MsgId(msg) == Or3(msg.item_id, msg.id, msg.client_context)

YES == <<"Y", "E", "S">>

\* What a user may type at the confirmation prompt.
ConfirmInputs ==
    { YES, <<" ", "Y", "E", "S", " ">>, <<"y", "e", "s">>, <<>>, <<"Y", "E", "S", "S">> }

\* What a remote call may come to: status ok, another answer, or an exception.
CallOutcomes == {"ok", "notok", "raise"}

\* Lines 604-605: the stripped input is the confirmation phrase.
Confirmed_AnyCase(confirm) == Lower(Strip(confirm)) = Lower(YES)

Confirmed(confirm) == Strip(confirm) = YES

\* delete_messages_raw_api up to the confirmation (lines 546-612).
DeleteMessages_ClearsOnCancel ==
    /\ pc = "menu"
    /\ UNCHANGED <<logged_in, selected_thread_id, my_user_id, has_last_matches,
                   last_keywords, matchThread, opVars, fetchVars, envVars, reqObs,
                   calls, touched, log, inboxReq>>
    /\ caller' = "delete"
    /\ IF ~logged_in
       THEN result' = "not_logged_in" /\ UNCHANGED <<unsendVars, typed, last_matches>>
       ELSE IF selected_thread_id = NoThread
       THEN result' = "no_thread" /\ UNCHANGED <<unsendVars, typed, last_matches>>
       ELSE IF ~has_last_matches \/ last_matches = <<>>
       THEN result' = "no_prior_search" /\ UNCHANGED <<unsendVars, typed, last_matches>>
       ELSE IF OwnOf(last_matches, my_user_id) = <<>>
       THEN result' = "nothing_to_retract" /\ UNCHANGED <<unsendVars, typed, last_matches>>
       ELSE \E confirm \in ConfirmInputs :
              /\ typed' = confirm
              /\ IF ~Confirmed(confirm)
                 THEN result' = "cancelled" /\ last_matches' = <<>> /\ UNCHANGED unsendVars
                 ELSE /\ result' = "confirmed"
                      /\ own_messages' = OwnOf(last_matches, my_user_id)
                      /\ idx' = 1 /\ deleted' = 0 /\ failed' = 0
                      /\ UNCHANGED last_matches
    /\ pc' = IF result' = "confirmed" THEN "unsend" ELSE "done"

DeleteMessages ==
    /\ pc = "menu"
    /\ UNCHANGED <<progVars, opVars, fetchVars, envVars, reqObs, calls, touched,
                   log, inboxReq>>
    /\ caller' = "delete"
    /\ IF ~logged_in
       THEN result' = "not_logged_in" /\ UNCHANGED <<unsendVars, typed>>
       ELSE IF selected_thread_id = NoThread
       THEN result' = "no_thread" /\ UNCHANGED <<unsendVars, typed>>
       ELSE IF ~has_last_matches \/ last_matches = <<>>
       THEN result' = "no_prior_search" /\ UNCHANGED <<unsendVars, typed>>
       ELSE IF OwnOf(last_matches, my_user_id) = <<>>
       THEN result' = "nothing_to_retract" /\ UNCHANGED <<unsendVars, typed>>
       ELSE \E confirm \in ConfirmInputs :
              /\ typed' = confirm
              /\ IF ~Confirmed(confirm)
                 THEN result' = "cancelled" /\ UNCHANGED unsendVars
                 ELSE /\ result' = "confirmed"
                      /\ own_messages' = OwnOf(last_matches, my_user_id)
                      /\ idx' = 1 /\ deleted' = 0 /\ failed' = 0
    /\ pc' = IF result' = "confirmed" THEN "unsend" ELSE "done"

PrimaryCall(msg) ==
    [ep |-> "delete", thread |-> selected_thread_id, item |-> MsgId(msg), msg |-> msg]

AlternateCall(msg) ==
    [ep |-> "item_unsend", thread |-> selected_thread_id, item |-> MsgId(msg), msg |-> msg]

\* An event of the pass: an item skipped for want of an identifier, or a
\* remote call on one of the two endpoints with what came of it.
Event(ev, msg, out) ==
    [ev |-> ev, mid |-> msg.mid, item |-> MsgId(msg),
     thread |-> selected_thread_id, out |-> out]

\* Lines 614, 666-668: the for loop goes on to the next item, also after an
\* exception (i: this item's position, n: the number of own items).
NextItem_AbortOnRaise(i, n, raised) == IF raised THEN n + 1 ELSE i + 1

NextItem(i, n, raised) == i + 1

\* One iteration of the unsend loop (lines 614-668).
UnsendItem ==
    /\ pc = "unsend"
    /\ idx <= Len(own_messages)
    /\ LET msg == own_messages[idx]
           n == Len(own_messages)
       IN IF ~Truthy(MsgId(msg))
          THEN /\ failed' = failed + 1
               /\ calls' = <<>>
               /\ log' = Append(log, Event("skip", msg, "none"))
               /\ idx' = NextItem(idx, n, FALSE)
               /\ UNCHANGED <<deleted, touched>>
          ELSE /\ touched' = Append(touched, msg.mid)
               /\ \E r1 \in CallOutcomes :
                    CASE r1 = "ok" ->
                           /\ calls' = <<PrimaryCall(msg)>>
                           /\ log' = Append(log, Event("delete", msg, r1))
                           /\ deleted' = deleted + 1 /\ UNCHANGED failed
                           /\ idx' = NextItem(idx, n, FALSE)
                      [] r1 = "raise" ->
                           /\ calls' = <<PrimaryCall(msg)>>
                           /\ log' = Append(log, Event("delete", msg, r1))
                           /\ failed' = failed + 1 /\ UNCHANGED deleted
                           /\ idx' = NextItem(idx, n, TRUE)
                      [] OTHER ->
                           /\ calls' = <<PrimaryCall(msg), AlternateCall(msg)>>
                           /\ \E r2 \in CallOutcomes :
                                /\ log' = log \o <<Event("delete", msg, r1),
                                                   Event("item_unsend", msg, r2)>>
                                /\ IF r2 = "ok"
                                   THEN deleted' = deleted + 1 /\ UNCHANGED failed
                                   ELSE failed' = failed + 1 /\ UNCHANGED deleted
                                /\ idx' = NextItem(idx, n, r2 = "raise")
    /\ UNCHANGED <<progVars, ctlVars, opVars, fetchVars, own_messages, envVars,
                   reqObs, typed, inboxReq>>

\* The loop is over: report and clear the retained matches (lines 670-675).
UnsendFinish_KeepMatches ==
    /\ pc = "unsend"
    /\ idx > Len(own_messages)
    /\ pc' = "done" /\ result' = "complete"
    /\ UNCHANGED <<progVars, caller, opVars, fetchVars, unsendVars, envVars,
                   reqObs, callObs>>

UnsendFinish ==
    /\ pc = "unsend"
    /\ idx > Len(own_messages)
    /\ last_matches' = <<>>
    /\ pc' = "done" /\ result' = "complete"
    /\ UNCHANGED <<logged_in, selected_thread_id, my_user_id, has_last_matches,
                   last_keywords, matchThread, caller, opVars, fetchVars, unsendVars, envVars,
                   reqObs, callObs>>

\* ------------------------------------------------------- specifications
Next ==
    \/ Login
    \/ ListThreads
    \/ SelectThread
    \/ ViewMessages
    \/ SearchMessages
    \/ FetchIter
    \/ FetchExit
    \/ ViewAfterFetch
    \/ SearchAfterFetch
    \/ DeleteMessages
    \/ UnsendItem
    \/ UnsendFinish
    \/ Return

\* The tool driven from its menu, against an honest service.
Spec == Init /\ [][Next]_vars

\* One history request of a logged-in tool with a thread selected, against a
\* service of any profile and history that may answer with faults.
FetchInit ==
    /\ logged_in = TRUE
    /\ selected_thread_id = "1"
    /\ my_user_id = PyStr(IntV("uid", Me))
    /\ has_last_matches = FALSE
    /\ last_matches = <<>>
    /\ last_keywords = <<>>
    /\ matchThread = NoThread
    /\ pc = "menu" /\ caller = "none" /\ result = ""
    /\ NoLocals
    /\ N \in 0..MaxHistory
    /\ locs \in Profiles
    /\ faults = TRUE
    /\ anyItems = FALSE

FetchNext ==
    \/ ViewMessages
    \/ SearchWith({<< <<" ", "A">>, <<"b", " ">> >>})
    \/ FetchIter
    \/ FetchExit
    \/ ViewAfterFetch
    \/ SearchAfterFetch

FetchSpec == FetchInit /\ [][FetchNext]_vars

\* The same with a reduced choice of profiles, and the program running on:
\* no step it can take is put off forever.
LiveProfiles ==
    { {}, {"paging"}, {"timestamp", "paging"}, {"oldest", "next", "itemid"} }

FetchLive ==
    /\ FetchInit /\ locs \in LiveProfiles
    /\ [][FetchNext]_vars
    /\ WF_vars(FetchNext)

\* One search of a logged-in tool with a thread selected, over a thread that
\* holds any messages in any order.
SearchInit ==
    /\ logged_in = TRUE
    /\ selected_thread_id = "1"
    /\ my_user_id = PyStr(IntV("uid", Me))
    /\ has_last_matches = FALSE
    /\ last_matches = <<>>
    /\ last_keywords = <<>>
    /\ matchThread = NoThread
    /\ pc = "menu" /\ caller = "none" /\ result = ""
    /\ NoLocals
    /\ N = MaxMid
    /\ locs = {"itemid"}
    /\ faults = FALSE
    /\ anyItems = TRUE

SearchNext == SearchMessages

SearchSpec == SearchInit /\ [][SearchNext]_vars

\* ================================================================ claims
Ceil(a, b) == (a + b - 1) \div b

\* The operation got as far as obtaining the thread's history.
ObtainedHistory ==
    /\ pc = "done"
    /\ caller \in {"view", "search"}
    /\ result \in {"failed", "no_thread_data", "no_messages", "shown", "searched"}

\* The author id of msg, as a string, is the account id.
AuthoredByAccount(msg) ==
    /\ msg.user_id.t \in {"int", "str"}
    /\ msg.user_id.src = "uid"
    /\ msg.user_id.p = my_user_id.p

\* The mids of the matches that are the account's own and carry an identifier.
RECURSIVE OwnResolvable(_)
OwnResolvable(matches) ==
    IF matches = <<>> THEN <<>>
    ELSE (IF /\ AuthoredByAccount(Head(matches))
             /\ \E f \in {Head(matches).item_id, Head(matches).id,
                          Head(matches).client_context} : f.t = "str" /\ f.src # ""
          THEN <<Head(matches).mid>> ELSE <<>>)
         \o OwnResolvable(Tail(matches))

\* C1. The paginated fetch always terminates, whatever the service answers:
\* every loop iteration issues one page request, a fetch never issues more
\* than EmptyBudget * targetCount requests, and while it is in the loop it
\* always has a step to take (another iteration, or the return). The bound
\* comes from progress: every request either adds an item or uses up one unit
\* of the budget that only an added item restores.
C1_FetchTerminates ==
    /\ loopEntered => nreq <= EmptyBudget * max_messages
    /\ loopEntered => nreq <= EmptyBudget * Len(all_messages) + consecutive_empty_pages
    /\ pc = "loop" => ENABLED (FetchIter \/ FetchExit)

\* C1, as a liveness property of FetchLive: a fetch in its loop returns.
C1_FetchReturns == (pc = "loop") ~> (pc = "ret")

\* A fetch returned after pages, empty pages and errors in a mix.
C1_Witness ==
    /\ pc = "ret"
    /\ all_messages # <<>>
    /\ nreq >= 5
    /\ lastResp.kind = "error"
    /\ consecutive_empty_pages = EmptyBudget

\* C2. The item list the caller uses is never longer than the amount asked
\* for, on the paginated path and on the direct path, whatever the size of
\* the pages the service sends.
C2_AtMostTarget == ObtainedHistory => Len(items) <= amount

\* C2, paginated path only: the collected list never exceeds the target.
C2_PaginatedAtMostTarget == loopEntered => Len(all_messages) <= max_messages

\* C3. Against an honest service with a history of N messages that populates
\* some cursor location, the paginated fetch returns min(targetCount, N) items.
C3_ReturnsMinTargetHistory ==
    (pc = "ret" /\ honest /\ locs # {})
        => Len(all_messages) = Min(max_messages, N)

\* C3, for every profile but the one that populates paging_info.max_id alone.
C3_ExceptPagingOnly ==
    (pc = "ret" /\ honest /\ locs # {} /\ locs # {"paging"})
        => Len(all_messages) = Min(max_messages, N)

\* C4. The empty/failure counter is a circuit-breaker bounded by EmptyBudget:
\* it stays in 0..EmptyBudget, every page request is issued while it is below
\* the budget, it is 0 after every non-empty page, and the loop is left once
\* it reaches the budget.
C4_CircuitBreaker ==
    /\ consecutive_empty_pages \in 0..EmptyBudget
    /\ (loopEntered /\ nreq > 0) => reqCep <= EmptyBudget - 1
    /\ (loopEntered /\ RespKind(lastResp) = "page") => consecutive_empty_pages = 0
    /\ consecutive_empty_pages = EmptyBudget => pc # "loop"

\* The budget ran out after an earlier page had reset the counter.
C4_Witness ==
    /\ pc = "ret"
    /\ consecutive_empty_pages = EmptyBudget
    /\ all_messages # <<>>
    /\ nreq >= EmptyBudget + 2

\* The request being issued follows a page with items held in lastResp.
RequestAfterPage ==
    /\ pc = "loop"
    /\ nreq' = nreq + 1
    /\ RespKind(lastResp) = "page"

\* C5. After a non-empty page with no thread-level cursor, whose last item
\* has no timestamp and whose response carries paging_info.max_id, the next
\* request carries that max id as its cursor.
C5_PagingMaxIdUsed ==
    [][ ( /\ RequestAfterPage
          /\ ~Has(lastResp.oldest_cursor)
          /\ ~Has(lastResp.next_cursor)
          /\ ~Has(lastResp.items[Len(lastResp.items)].timestamp)
          /\ lastResp.has_paging
          /\ Truthy(lastResp.max_id) )
        => lastReq' = lastResp.max_id ]_vars

\* C6 as claimed. After a non-empty page that contains both oldest_cursor and
\* next_cursor, the next request carries the oldest_cursor value, whatever
\* the two values are.
C6_OldestAlwaysUsed ==
    [][ ( /\ RequestAfterPage
          /\ Has(lastResp.oldest_cursor)
          /\ Has(lastResp.next_cursor) )
        => lastReq' = CursorParam(lastResp.oldest_cursor) ]_vars

\* C6 as amended. After a non-empty page that contains both oldest_cursor and
\* next_cursor, with oldest_cursor not the empty string, the next request
\* carries the oldest_cursor value, whatever next_cursor is.
C6_NonEmptyOldestUsed ==
    [][ ( /\ RequestAfterPage
          /\ Has(lastResp.oldest_cursor)
          /\ Has(lastResp.next_cursor)
          /\ Truthy(lastResp.oldest_cursor) )
        => lastReq' = lastResp.oldest_cursor ]_vars

\* A request went out with the oldest_cursor of a page that also had a
\* next_cursor, and was answered with the page that cursor names.
C6_Witness ==
    /\ pc = "loop"
    /\ "next" \in locs
    /\ honest
    /\ nreq = 2
    /\ lastReq = StrV("oldest", PageLimit)
    /\ RespKind(lastResp) = "page"
    /\ Truthy(lastResp.next_cursor)
    /\ lastResp.items[1].mid = PageLimit + 1

\* C7. After an empty page, a response without thread payload or a request
\* error, the next page request carries the same cursor parameter (or the
\* same absence of one) as the request that made no progress.
C7_RetrySameCursor ==
    [][ ( /\ pc = "loop"
          /\ nreq >= 1
          /\ nreq' = nreq + 1
          /\ RespKind(lastResp) \in NoProgress )
        => lastReq' = lastReq ]_vars

\* A request with a cursor was repeated after a response without progress.
C7_Witness ==
    /\ loopEntered
    /\ nreq >= 3
    /\ reqCep >= 1
    /\ Truthy(lastReq)
    /\ RespKind(lastResp) = "page"

\* C8. With an amount of at most PageLimit, obtaining the history issues
\* exactly one page request and the multi-page loop is never entered,
\* whatever that one response is.
C8_SingleRequest ==
    (caller \in {"view", "search"} /\ amount <= PageLimit)
        => /\ ~loopEntered
           /\ pc \notin {"loop", "ret"}
           /\ ObtainedHistory => nreq = 1

\* A search for exactly PageLimit messages ended on a response without
\* thread payload, after one request.
C8_Witness ==
    /\ ObtainedHistory
    /\ caller = "search"
    /\ amount = PageLimit
    /\ result = "no_thread_data"
    /\ nreq = 1

\* C9. Against an honest service that supplies oldest_cursor and holds at
\* least targetCount messages, the paginated fetch issues exactly
\* ceil(targetCount / PageLimit) requests and returns the targetCount newest
\* messages, newest first.
C9_HonestOldestCursor ==
    (pc = "ret" /\ honest /\ "oldest" \in locs /\ N >= max_messages)
        => /\ nreq = Ceil(max_messages, PageLimit)
           /\ all_messages = Slice(locs, 1, max_messages)

\* Two full pages and a part of a third: three requests.
C9_Witness ==
    /\ pc = "ret" /\ honest /\ "oldest" \in locs
    /\ max_messages = 2 * PageLimit + 1
    /\ N >= max_messages
    /\ nreq = 3
    /\ Len(all_messages) = max_messages
    /\ lastReq = StrV("oldest", 2 * PageLimit)

\* C10. A retraction pass calls the remote endpoints only for matches whose
\* author id, as a string, is the account id; and when the pass is through,
\* the items a call was made for are exactly the own matches that carry an
\* identifier, in order.
C10_OnlyOwnRetracted ==
    /\ \A i \in 1..Len(calls) : AuthoredByAccount(calls[i].msg)
    /\ (pc = "unsend" /\ idx > Len(own_messages))
           => touched = OwnResolvable(last_matches)

\* Five matches, three of them the account's own: three items attempted.
C10_Witness ==
    /\ pc = "unsend"
    /\ idx > Len(own_messages)
    /\ Len(last_matches) = 5
    /\ Len(touched) = 3
    /\ Len(calls) = 2

\* C11 as claimed. Confirmation gate: when what is typed at the confirmation
\* prompt is anything other than the phrase YES itself, the retraction
\* operation makes no remote retraction call.
C11_AnyOtherInputNoCalls ==
    (caller = "delete" /\ typed # YES) => (touched = <<>> /\ calls = <<>>)

\* C11 as amended. Confirmation gate: when what is typed at the confirmation
\* prompt, leading and trailing blanks removed, is anything other than the
\* phrase YES, the retraction operation makes no remote retraction call on
\* either endpoint and does not enter the pass.
C11_ConfirmationGate ==
    (caller = "delete" /\ Strip(typed) # YES)
        => (touched = <<>> /\ calls = <<>> /\ log = <<>> /\ pc # "unsend")

\* With own matches retained, the lower-case phrase was typed and the
\* operation was cancelled without a call.
C11_Witness ==
    /\ pc = "done" /\ caller = "delete" /\ result = "cancelled"
    /\ typed = <<"y", "e", "s">>
    /\ OwnOf(last_matches, my_user_id) # <<>>
    /\ touched = <<>>

\* C12. Per-item fallback: whenever the primary call for an item does not
\* report success (another status, or an exception), the alternate endpoint
\* is called for that item next; no item is counted failed after the primary
\* endpoint alone was tried.
C12_AlternateBeforeFailed ==
    \A i \in 1..Len(log) :
        (log[i].ev = "delete" /\ log[i].out # "ok")
            => /\ i < Len(log)
               /\ log[i + 1].ev = "item_unsend"
               /\ log[i + 1].mid = log[i].mid

\* C12, for a primary call that returns with a status other than ok.
C12_NotOkStatusFallsBack ==
    \A i \in 1..Len(log) :
        (log[i].ev = "delete" /\ log[i].out = "notok")
            => /\ i < Len(log)
               /\ log[i + 1].ev = "item_unsend"
               /\ log[i + 1].mid = log[i].mid

\* The step on which a search operation returns to the menu loop.
SearchReturns == pc # "done" /\ pc' = "done" /\ caller' = "search"

\* C13 as claimed. Every search replaces the retained lists: when a search
\* returns while lists of an earlier search are retained, the retained match
\* list and keyword list are those this search produced.
C13_EverySearchReplaces ==
    [][ (SearchReturns /\ has_last_matches)
        => /\ last_matches' = Scan(items', keywords')
           /\ last_keywords' = keywords' ]_vars

\* C13 as amended. A search that obtained a non-empty item list leaves as
\* retained lists the matches and keywords it produced, whatever was retained
\* before; a search that returns without items to scan (no keywords typed,
\* request failure, no thread payload, no items) leaves the retained lists
\* as they were.
C13_CompletedSearchReplaces ==
    [][ SearchReturns
        => IF items' # <<>>
           THEN /\ has_last_matches'
                /\ last_matches' = Scan(items', keywords')
                /\ last_keywords' = keywords'
           ELSE UNCHANGED <<has_last_matches, last_matches, last_keywords>> ]_vars

\* A search over five items for the one keyword "ba" returned and retains
\* its single match.
C13_Witness ==
    /\ pc = "done" /\ caller = "search"
    /\ Len(items) = 5
    /\ last_keywords = << <<"b", "a">> >>
    /\ Len(last_matches) = 1
    /\ last_matches[1].mid = 2

\* C14. The search result is exactly the subsequence of the fetched items
\* whose text is present, non-empty and, lower-cased, contains one of the
\* trimmed lower-cased keywords typed (any of them) as a substring; items
\* with empty or absent text never match, and the order is kept.
C14_SearchResult ==
    (pc = "done" /\ caller = "search" /\ items # <<>>)
        => LET kws == { Lower(Strip(typed[i])) : i \in 1..Len(typed) }
               Hit(it) ==
                   /\ it.has_text
                   /\ it.text # <<>>
                   /\ \E kw \in kws : \E i \in 1..Len(it.text) :
                        \E j \in i..Len(it.text) : Lower(SubSeq(it.text, i, j)) = kw
           IN /\ last_matches = SelectSeq(items, Hit)
              /\ last_keywords = keywords
              /\ \A i \in 1..Len(keywords) : keywords[i] \in kws \ {<<>>}

\* Of an item without text, the item "BB" and an item with empty text, the
\* search for " A,b " retained the second alone.
C14_Witness ==
    /\ pc = "done" /\ caller = "search"
    /\ typed = << <<" ", "A">>, <<"b", " ">> >>
    /\ Len(items) = 3
    /\ ~items[1].has_text
    /\ items[2].text = <<"B", "B">>
    /\ items[3].has_text /\ items[3].text = <<>>
    /\ last_matches = <<items[2]>>

ItemStarts == LET First(e) == e.ev # "item_unsend" IN SelectSeq(log, First)

\* C16. Per-item failures never abort the batch: all through a confirmed
\* pass, the items processed so far are the first idx - 1 own items, each
\* once and in order; an alternate call comes right after the primary call of
\* the same item; every processed item is counted once, as retracted or as
\* failed; and the pass ends only when every own item has been processed, so
\* that retracted + failed is then the number of own items.
C16_BatchNeverAborts ==
    pc = "unsend"
        => /\ idx \in 1..(Len(own_messages) + 1)
           /\ Len(ItemStarts) = idx - 1
           /\ \A k \in 1..Len(ItemStarts) : ItemStarts[k].mid = own_messages[k].mid
           /\ \A i \in 1..Len(log) :
                log[i].ev = "item_unsend"
                    => (i > 1 /\ log[i - 1].ev = "delete" /\ log[i - 1].mid = log[i].mid)
           /\ deleted + failed = idx - 1
           /\ ENABLED UnsendFinish => deleted + failed = Len(own_messages)

\* A pass over three own items ended after a raised primary call, a primary
\* call answered not-ok with the alternate answered ok, and a primary call
\* answered ok.
C16_Witness ==
    /\ pc = "unsend"
    /\ idx > Len(own_messages)
    /\ Len(own_messages) = 3
    /\ Len(log) = 4
    /\ log[1].out = "raise"
    /\ log[2].out = "notok" /\ log[3].ev = "item_unsend" /\ log[3].out = "ok"
    /\ log[4].ev = "delete" /\ log[4].out = "ok"
    /\ deleted = 2 /\ failed = 1

\* The first n items of s, or all of s when it is shorter.
Truncated(s, n) == SubSeq(s, 1, Min(Len(s), n))

\* C17. Empty pages, responses without thread payload and request failures
\* share one budget and lose nothing: the counter is the number of responses
\* without progress, of whatever kinds, since the last non-empty page; once
\* EmptyBudget of them came in a row the fetch has stopped; and what the fetch
\* holds, and hands to its caller, is the concatenation in request order of
\* the items of all non-empty pages received, truncated to the target count.
C17_SharedBudgetLosesNothing ==
    loopEntered
        => /\ Len(streak) = consecutive_empty_pages
           /\ \A i \in 1..Len(streak) : streak[i] \in NoProgress
           /\ Len(streak) <= EmptyBudget
           /\ Len(streak) = EmptyBudget => pc \in {"ret", "done"}
           /\ all_messages = Truncated(received, max_messages)
           /\ pc = "done" => items = Truncated(received, max_messages)

\* After two pages, a request error, an empty page and a response without
\* thread payload in a row ended the fetch, which returned both pages' items.
C17_Witness ==
    /\ pc = "ret"
    /\ streak = <<"error", "empty", "nothread">>
    /\ nreq = 5
    /\ Len(received) = 2 * PageLimit
    /\ all_messages = received
    /\ max_messages > Len(received)

\* C18. When a non-empty page yields no cursor by any strategy, the loop goes
\* on only if that page was page 1, and stops otherwise with the items
\* collected so far; a request issued right after such a page is the second
\* request of the fetch (so there is at most one per fetch) and carries no
\* cursor.
C18_RetryOnlyAfterPageOne ==
    [][ /\ ( /\ loopEntered /\ nreq' = nreq + 1
             /\ RespKind(lastResp') = "page" /\ ~Truthy(cursor') )
           => IF page = 1
              THEN pc' = "loop" /\ page' = 2
              ELSE /\ pc' = "ret"
                   /\ all_messages' = Truncated(received', max_messages)
        /\ ( /\ loopEntered /\ nreq' = nreq + 1
             /\ RespKind(lastResp) = "page" /\ ~Truthy(cursor) )
           => (page = 2 /\ nreq = 1 /\ lastReq' = NoneV) ]_vars

\* Page 1 gave no cursor, the second request went out without one, its page
\* gave no cursor either and the fetch returned short of its target.
C18_Witness ==
    /\ pc = "ret"
    /\ nreq = 2 /\ reqCep = 0
    /\ lastReq = NoneV
    /\ RespKind(lastResp) = "page" /\ ~Truthy(cursor)
    /\ Len(all_messages) < max_messages
    /\ Len(received) = 2 * PageLimit

\* The field is present and holds a non-empty string.
Resolves(f) == f.t = "str" /\ f.src # ""

\* The own item the event e of the pass is about.
ItemOf(e) == CHOOSE m \in {own_messages[k] : k \in 1..Len(own_messages)} : m.mid = e.mid

C19_SentGenericId ==
    /\ pc = "unsend"
    /\ calls # <<>>
    /\ calls[1].msg.item_id = EmptyStr
    /\ calls[1].item = calls[1].msg.id
    /\ Truthy(calls[1].item)

\* C20. Precondition failures abort an operation before it starts: a thread
\* page request or a retraction call is issued only while the tool is logged
\* in and a thread is selected, and an inbox listing request only while it is
\* logged in.
C20_PreconditionsGuardRequests ==
    [][ /\ nreq' > nreq => (logged_in /\ selected_thread_id # NoThread)
        /\ (\E i \in 1..Len(log') : i > Len(log) /\ log'[i].ev # "skip")
              => (logged_in /\ selected_thread_id # NoThread)
        /\ inboxReq' > inboxReq => logged_in
        /\ (pc = "menu" /\ (~logged_in \/ selected_thread_id = NoThread)
              /\ caller' \in {"view", "search", "delete"})
              => (pc' = "done" /\ nreq' = 0 /\ log' = <<>>) ]_vars

\* A retraction asked for while matches are retained but no thread is
\* selected (the thread picked from the inbox list carried no thread_id)
\* ended at once without a call.
C20_Witness ==
    /\ pc = "done" /\ caller = "delete" /\ result = "no_thread"
    /\ logged_in
    /\ selected_thread_id = NoThread
    /\ last_matches # <<>>
    /\ log = <<>> /\ nreq = 0

\* C21. Every retraction call, on either endpoint, carries the id of the
\* thread that was selected when the retained match list was produced.
C21_CallsTargetMatchThread ==
    \A i \in 1..Len(log) : log[i].ev # "skip" => log[i].thread = matchThread

\* C21, for the thread selected when the retraction runs.
C21_CallsTargetSelectedThread ==
    \A i \in 1..Len(log) :
        log[i].ev # "skip"
            => (log[i].thread = selected_thread_id /\ log[i].thread # NoThread)

\* No message occurs twice in s.
NoDuplicates(s) == \A i, j \in 1..Len(s) : s[i].mid = s[j].mid => i = j

\* C22. Against a service that answers honestly whenever it answers (pages
\* named by the cursor, the newest page without cursor) and otherwise fails
\* (request error, no thread payload), the collected history never holds a
\* message twice.
C22_NoDuplicates == (loopEntered /\ orderly) => NoDuplicates(all_messages)

\* C22, for a service whose every non-empty page yields the fetch a cursor.
C22_NoDuplicatesWithCursor ==
    (loopEntered /\ orderly /\ locs \notin {{}, {"paging"}})
        => NoDuplicates(all_messages)

\* C23. A retraction operation that stops before the batch (not logged in,
\* no thread selected, no prior search, no own matches, confirmation refused)
\* leaves the retained match list and keyword list as they were, and makes
\* no call.
C23_StoppedRetractionKeepsMatches ==
    [][ (pc = "menu" /\ caller' = "delete" /\ pc' = "done")
        => /\ UNCHANGED <<has_last_matches, last_matches, last_keywords>>
           /\ result' \in {"not_logged_in", "no_thread", "no_prior_search",
                           "nothing_to_retract", "cancelled"}
           /\ log' = <<>> ]_vars

\* A retraction was refused at the prompt (a longer word was typed) and the
\* three own matches among the five retained are all still there.
C23_Witness ==
    /\ pc = "done" /\ caller = "delete" /\ result = "cancelled"
    /\ typed = <<"Y", "E", "S", "S">>
    /\ Len(last_matches) = 5
    /\ Len(OwnOf(last_matches, my_user_id)) = 3
    /\ last_keywords # <<>>

\* The ways a thread selection (by id or username, or from the inbox list)
\* fails: not logged in, empty input, username lookup error, inbox request
\* error, no thread with that user, missing inbox, empty inbox, cancelled
\* choice, invalid choice.
SelectionFailures ==
    {"not_logged_in", "empty_input", "lookup_error", "inbox_error", "not_found",
     "error", "no_inbox", "no_threads", "cancel", "invalid"}

\* C24. A thread selection that fails leaves the selected thread id as it
\* was; the selection changes only on a selection that succeeds; and what is
\* selected is always one thread id or none.
C24_FailedSelectionKeepsThread ==
    [][ /\ (pc = "menu" /\ caller' \in {"select", "list"} /\ result' \in SelectionFailures)
           => UNCHANGED selected_thread_id
        /\ selected_thread_id' # selected_thread_id
           => (caller' \in {"select", "list"} /\ result' = "ok")
        /\ selected_thread_id' \in InboxThreadIds ]_vars

\* With thread "2" selected, a selection by username found no thread in the
\* inbox window it fetched: thread "2" is still selected.
C24_Witness ==
    /\ pc = "done" /\ caller = "select" /\ result = "not_found"
    /\ inboxReq = 1
    /\ selected_thread_id = "2"

====
